---- MODULE Spec2Model ----
(***************************************************************************)
(* Model of the UAVI tunnel detection sketches:                            *)
(*   src/docs/insight_engine.py  InsightAwareKernel                        *)
(*   src/docs/uavi_humor.py      HumorAwareKernel                          *)
(*                                                                         *)
(* Strings that the code slices or parses (node ids) are sequences of      *)
(* one-character strings.  Python ints are arbitrary-precision magnitudes  *)
(* with a sign; Python floats are binary64 values, a 53 bit numerator      *)
(* scaled by a power of two.                                               *)
(***************************************************************************)
EXTENDS Integers, Sequences, FiniteSets, TLC

VARIABLES nodes, oracle, last

vars == <<nodes, oracle, last>>

(***************************************************************************)
(* Bounds of the model.                                                    *)
(***************************************************************************)
\* largest numeric id suffix of the path nodes offered to the insight kernel
MaxIdx == 11
\* longest 'tags' list in a node's metadata
MaxTags == 3
\* number of nodes that get registered in the kernel's graph
MaxGraph == 1
\* number of digits of the longest id suffix offered to the insight kernel
HugeDigits == 310

\* n1 .. n10: the ten research steps of the demonstration
PathLen == 10

\* sys.get_int_max_str_digits(): int() refuses longer decimal strings
MaxStrDigits == 4300

\* a float has 53 significant bits and is below 2^1024, a 309 digit number
MaxFloatDigits == 309

(***************************************************************************)
(* Python int: [neg, mag].  The magnitude is written in base 10^4, most    *)
(* significant limb first, without leading zero limbs; the magnitude of 0  *)
(* is << >>.                                                               *)
(***************************************************************************)
LimbDigits == 4

Base == 10000

\* recursions over limbs and over shifts run in blocks of this many steps
BlockSteps == 8

Min(a, b) == IF a < b THEN a ELSE b

Max(a, b) == IF a < b THEN b ELSE a

\* drop the leading zero limbs
BigTrim(x) ==
    IF \A i \in 1..Len(x) : x[i] = 0 THEN <<>>
    ELSE LET first == CHOOSE i \in 1..Len(x) :
                          x[i] # 0 /\ \A j \in 1..(i - 1) : x[j] = 0
         IN  SubSeq(x, first, Len(x))

RECURSIVE BigOf(_)
\* the magnitude of a small natural number
BigOf(n) == IF n = 0 THEN <<>> ELSE Append(BigOf(n \div Base), n % Base)

RECURSIVE BigToNatFrom(_, _)
BigToNatFrom(x, acc) ==
    IF x = <<>> THEN acc ELSE BigToNatFrom(Tail(x), acc * Base + Head(x))

\* the value of a magnitude that fits a machine word
BigToNat(x) == BigToNatFrom(x, 0)

\* -1, 0 or 1 as x is below, equal to or above y
BigCmp(x, y) ==
    IF Len(x) < Len(y) THEN -1
    ELSE IF Len(x) > Len(y) THEN 1
    ELSE IF x = y THEN 0
    ELSE LET first == CHOOSE i \in 1..Len(x) :
                          x[i] # y[i] /\ \A j \in 1..(i - 1) : x[j] = y[j]
         IN  IF x[first] < y[first] THEN -1 ELSE 1

\* the limb of weight Base^k
LimbAt(x, k) == IF k < Len(x) THEN x[Len(x) - k] ELSE 0

RECURSIVE BigPlusBlock(_, _, _, _, _)
\* s.acc holds the limbs of weight below Base^Len(s.acc), s.carry is the
\* carry (or, negative, the borrow) into the next limb
BigPlusBlock(x, y, sign, s, stop) ==
    LET k == Len(s.acc)
    IN  IF k >= stop THEN s
        ELSE LET t == LimbAt(x, k) + sign * LimbAt(y, k) + s.carry
             IN  BigPlusBlock(x, y, sign,
                              [carry |-> IF t < 0 THEN -1 ELSE t \div Base,
                               acc |-> <<(t + Base) % Base>> \o s.acc],
                              stop)

RECURSIVE BigPlusFrom(_, _, _, _)
BigPlusFrom(x, y, sign, s) ==
    LET n == Max(Len(x), Len(y))
        k == Len(s.acc)
    IN  IF k >= n
        THEN BigTrim(IF s.carry = 0 THEN s.acc ELSE <<s.carry>> \o s.acc)
        ELSE BigPlusFrom(x, y, sign,
                         BigPlusBlock(x, y, sign, s, Min(k + BlockSteps, n)))

BigAdd(x, y) == BigPlusFrom(x, y, 1, [carry |-> 0, acc |-> <<>>])

\* x - y for x >= y
BigSub(x, y) == BigPlusFrom(x, y, -1, [carry |-> 0, acc |-> <<>>])

RECURSIVE BigTimesFrom(_, _, _, _)
BigTimesFrom(x, m, carry, acc) ==
    LET k == Len(acc)
    IN  IF k >= Len(x)
        THEN BigTrim(IF carry = 0 THEN acc ELSE BigOf(carry) \o acc)
        ELSE LET t == LimbAt(x, k) * m + carry
             IN  BigTimesFrom(x, m, t \div Base, <<t % Base>> \o acc)

\* x * m for a magnitude of a few limbs and a natural number m up to 2^16
BigTimes(x, m) == BigTimesFrom(x, m, 0, <<>>)

RECURSIVE BigShl(_, _)
\* x * 2^b for a magnitude of a few limbs
BigShl(x, b) ==
    IF b > 15 THEN BigShl(BigTimes(x, 32768), b - 15) ELSE BigTimes(x, 2 ^ b)

RECURSIVE BigDivBlock(_, _, _, _)
\* s.acc holds the quotient of the first Len(s.acc) limbs, s.rem their
\* remainder
BigDivBlock(x, m, s, stop) ==
    LET i == Len(s.acc) + 1
    IN  IF i > stop THEN s
        ELSE LET t == s.rem * Base + x[i]
             IN  BigDivBlock(x, m, [rem |-> t % m, acc |-> Append(s.acc, t \div m)],
                             stop)

RECURSIVE BigDivFrom(_, _, _)
BigDivFrom(x, m, s) ==
    LET k == Len(s.acc)
    IN  IF k >= Len(x) THEN [q |-> BigTrim(s.acc), r |-> s.rem]
        ELSE BigDivFrom(x, m, BigDivBlock(x, m, s, Min(k + BlockSteps, Len(x))))

\* quotient and remainder of x by a positive m up to 2^16
BigDiv(x, m) == BigDivFrom(x, m, [rem |-> 0, acc |-> <<>>])

BigOdd(x) == x # <<>> /\ x[Len(x)] % 2 = 1

\* the number of decimal digits of a magnitude
BigDigits(x) ==
    IF x = <<>> THEN 0
    ELSE LimbDigits * (Len(x) - 1)
           + (IF x[1] >= 1000 THEN 4 ELSE IF x[1] >= 100 THEN 3
              ELSE IF x[1] >= 10 THEN 2 ELSE 1)

\* the magnitude written by a sequence of decimal digit values
BigOfDigits(d) ==
    LET w(k) == IF k < Len(d) THEN d[Len(d) - k] ELSE 0
        m == (Len(d) + LimbDigits - 1) \div LimbDigits
        limb(t) == w(4 * t) + 10 * w(4 * t + 1) + 100 * w(4 * t + 2)
                     + 1000 * w(4 * t + 3)
    IN  BigTrim([j \in 1..m |-> limb(m - j)])

PyLong(neg, mag) == [neg |-> neg /\ mag # <<>>, mag |-> mag]

IntOf(n) == IF n < 0 THEN PyLong(TRUE, BigOf(0 - n)) ELSE PyLong(FALSE, BigOf(n))

\* a - b
IntSub(a, b) ==
    IF a.neg # b.neg THEN PyLong(a.neg, BigAdd(a.mag, b.mag))
    ELSE IF BigCmp(a.mag, b.mag) >= 0 THEN PyLong(a.neg, BigSub(a.mag, b.mag))
    ELSE PyLong(~a.neg, BigSub(b.mag, a.mag))

\* abs(a)
Abs(a) == PyLong(FALSE, a.mag)

\* a <= b
IntLeq(a, b) ==
    IF a.neg /\ ~b.neg THEN TRUE
    ELSE IF ~a.neg /\ b.neg THEN FALSE
    ELSE IF a.neg THEN BigCmp(a.mag, b.mag) >= 0
    ELSE BigCmp(a.mag, b.mag) <= 0

(***************************************************************************)
(* Python float: [num, exp, den], the value num * 2^exp / den.             *)
(*   exp = 0 : num < 2^53 and den is a power of two, an exact small value  *)
(*   exp > 0 : den = 1 and 2^52 <= num < 2^53, a rounded integer           *)
(*   exp < 0 : den = 1 and 2^52 <= num < 2^53, a rounded quotient below 1  *)
(* Every value the kernels compute is positive or zero.                    *)
(***************************************************************************)
Rat(n, d) == [num |-> BigOf(n), exp |-> 0, den |-> d]

\* -1, 0 or 1 as float x is below, equal to or above float y
RatCmp(x, y) ==
    IF x.exp > 0 /\ y.exp > 0
    THEN IF x.exp # y.exp THEN (IF x.exp < y.exp THEN -1 ELSE 1)
         ELSE BigCmp(x.num, y.num)
    ELSE IF x.exp > 0 THEN 1
    ELSE IF y.exp > 0 THEN -1
    ELSE LET e == Min(x.exp, y.exp)
         IN  BigCmp(BigShl(BigTimes(x.num, y.den), x.exp - e),
                    BigShl(BigTimes(y.num, x.den), y.exp - e))

RatEq(x, y) == RatCmp(x, y) = 0

RatLeq(x, y) == RatCmp(x, y) <= 0

\* x > n for a small natural number n
RatGT(x, n) == RatCmp(x, Rat(n, 1)) > 0

\* float / float for the divisor 1.0 (line 37 divides by tunnel_dist = 1.0):
\* the quotient is the dividend
RatDiv(x, y) == CASE y = Rat(1, 1) -> x

\* 2^52
Two52 == <<4503, 5996, 2737, 496>>

\* 2^53
Two53 == <<9007, 1992, 5474, 992>>

\* 2^69
Two69 == <<5, 9029, 5810, 3587, 565, 1712>>

\* one shift to the right, by 16 bits while more than 16 are to go, keeping
\* the last bit shifted out (guard) and whether any earlier one was set
\* (sticky)
RoundStep(s) ==
    IF BigCmp(s.q, Two69) >= 0
    THEN LET h == BigDiv(s.q, 65536)
         IN  [q |-> h.q, e |-> s.e + 16,
              guard |-> IF h.r >= 32768 THEN 1 ELSE 0,
              sticky |-> s.sticky \/ s.guard = 1 \/ h.r % 32768 # 0]
    ELSE LET h == BigDiv(s.q, 2)
         IN  [q |-> h.q, e |-> s.e + 1, guard |-> h.r,
              sticky |-> s.sticky \/ s.guard = 1]

RECURSIVE RoundShiftBlock(_, _)
RoundShiftBlock(s, steps) ==
    IF steps = 0 \/ BigCmp(s.q, Two53) < 0 THEN s
    ELSE RoundShiftBlock(RoundStep(s), steps - 1)

RECURSIVE RoundShift(_)
\* shift s.q right until 53 bits are left, counting the shifts in s.e
RoundShift(s) ==
    IF BigCmp(s.q, Two53) < 0 THEN s
    ELSE RoundShift(RoundShiftBlock(s, BlockSteps))

\* whether a magnitude is the value of some float
FloatIsExact(mag) ==
    LET s == RoundShift([q |-> mag, e |-> 0, guard |-> 0, sticky |-> FALSE])
    IN  s.guard = 0 /\ ~s.sticky

\* the float nearest to a magnitude, ties to even
NearestFloat(mag) ==
    LET s == RoundShift([q |-> mag, e |-> 0, guard |-> 0, sticky |-> FALSE])
        up == s.guard = 1 /\ (s.sticky \/ BigOdd(s.q))
        q == IF up THEN BigAdd(s.q, <<1>>) ELSE s.q
    IN  IF q = Two53 THEN [num |-> Two52, exp |-> s.e + 1, den |-> 1]
        ELSE [num |-> q, exp |-> s.e, den |-> 1]

Ok(v) == [ok |-> TRUE, val |-> v]

Fail(e) == [ok |-> FALSE, err |-> e]

\* the largest float is below 2^1024 = 2^53 * 2^971
FloatOverflows(mag) ==
    IF BigDigits(mag) > MaxFloatDigits THEN TRUE
    ELSE IF BigDigits(mag) < MaxFloatDigits THEN FALSE
    ELSE NearestFloat(mag).exp > 971

RECURSIVE BitLength(_)
\* the number of bits of a natural number
BitLength(n) == IF n = 0 THEN 0 ELSE 1 + BitLength(n \div 2)

\* 1.0 / k for an int k from 1 to 2^16 (line 53 of uavi_humor.py): exact for
\* a power of two, otherwise the 53 bit quotient rounded to nearest, ties to
\* even
FloatRecip(k) ==
    LET c == BitLength(k - 1)
    IN  IF k = 2 ^ c THEN Rat(1, k)
        ELSE LET h == BigDiv(BigShl(Two52, c), k)
                 up == 2 * h.r > k \/ (2 * h.r = k /\ BigOdd(h.q))
                 q == IF up THEN BigAdd(h.q, <<1>>) ELSE h.q
             IN  IF q = Two53 THEN [num |-> Two52, exp |-> 1 - (52 + c), den |-> 1]
                 ELSE [num |-> q, exp |-> 0 - (52 + c), den |-> 1]

\* int / int for a small positive divisor (line 56 divides by tunnel_len = 1,
\* where the quotient is the dividend rounded to a float)
IntTrueDiv(a, d) ==
    IF d = 0 THEN Fail("ZeroDivisionError")
    ELSE IF FloatOverflows(a.mag) THEN Fail("OverflowError")
    ELSE Ok([NearestFloat(a.mag) EXCEPT !.den = d])

(***************************************************************************)
(* Node ids and int() parsing.  A character is a one-character string; a   *)
(* character outside ASCII is written by its code point, "U+0663".         *)
(***************************************************************************)
\* the decimal digits of Unicode 14 (category Nd), which int() reads: 66 runs
\* of ten characters valued 0 to 9
DigitBlocks ==
    <<
      <<"0", "1", "2", "3", "4",
        "5", "6", "7", "8", "9">>,
      <<"U+0660", "U+0661", "U+0662", "U+0663", "U+0664",
        "U+0665", "U+0666", "U+0667", "U+0668", "U+0669">>,
      <<"U+06F0", "U+06F1", "U+06F2", "U+06F3", "U+06F4",
        "U+06F5", "U+06F6", "U+06F7", "U+06F8", "U+06F9">>,
      <<"U+07C0", "U+07C1", "U+07C2", "U+07C3", "U+07C4",
        "U+07C5", "U+07C6", "U+07C7", "U+07C8", "U+07C9">>,
      <<"U+0966", "U+0967", "U+0968", "U+0969", "U+096A",
        "U+096B", "U+096C", "U+096D", "U+096E", "U+096F">>,
      <<"U+09E6", "U+09E7", "U+09E8", "U+09E9", "U+09EA",
        "U+09EB", "U+09EC", "U+09ED", "U+09EE", "U+09EF">>,
      <<"U+0A66", "U+0A67", "U+0A68", "U+0A69", "U+0A6A",
        "U+0A6B", "U+0A6C", "U+0A6D", "U+0A6E", "U+0A6F">>,
      <<"U+0AE6", "U+0AE7", "U+0AE8", "U+0AE9", "U+0AEA",
        "U+0AEB", "U+0AEC", "U+0AED", "U+0AEE", "U+0AEF">>,
      <<"U+0B66", "U+0B67", "U+0B68", "U+0B69", "U+0B6A",
        "U+0B6B", "U+0B6C", "U+0B6D", "U+0B6E", "U+0B6F">>,
      <<"U+0BE6", "U+0BE7", "U+0BE8", "U+0BE9", "U+0BEA",
        "U+0BEB", "U+0BEC", "U+0BED", "U+0BEE", "U+0BEF">>,
      <<"U+0C66", "U+0C67", "U+0C68", "U+0C69", "U+0C6A",
        "U+0C6B", "U+0C6C", "U+0C6D", "U+0C6E", "U+0C6F">>,
      <<"U+0CE6", "U+0CE7", "U+0CE8", "U+0CE9", "U+0CEA",
        "U+0CEB", "U+0CEC", "U+0CED", "U+0CEE", "U+0CEF">>,
      <<"U+0D66", "U+0D67", "U+0D68", "U+0D69", "U+0D6A",
        "U+0D6B", "U+0D6C", "U+0D6D", "U+0D6E", "U+0D6F">>,
      <<"U+0DE6", "U+0DE7", "U+0DE8", "U+0DE9", "U+0DEA",
        "U+0DEB", "U+0DEC", "U+0DED", "U+0DEE", "U+0DEF">>,
      <<"U+0E50", "U+0E51", "U+0E52", "U+0E53", "U+0E54",
        "U+0E55", "U+0E56", "U+0E57", "U+0E58", "U+0E59">>,
      <<"U+0ED0", "U+0ED1", "U+0ED2", "U+0ED3", "U+0ED4",
        "U+0ED5", "U+0ED6", "U+0ED7", "U+0ED8", "U+0ED9">>,
      <<"U+0F20", "U+0F21", "U+0F22", "U+0F23", "U+0F24",
        "U+0F25", "U+0F26", "U+0F27", "U+0F28", "U+0F29">>,
      <<"U+1040", "U+1041", "U+1042", "U+1043", "U+1044",
        "U+1045", "U+1046", "U+1047", "U+1048", "U+1049">>,
      <<"U+1090", "U+1091", "U+1092", "U+1093", "U+1094",
        "U+1095", "U+1096", "U+1097", "U+1098", "U+1099">>,
      <<"U+17E0", "U+17E1", "U+17E2", "U+17E3", "U+17E4",
        "U+17E5", "U+17E6", "U+17E7", "U+17E8", "U+17E9">>,
      <<"U+1810", "U+1811", "U+1812", "U+1813", "U+1814",
        "U+1815", "U+1816", "U+1817", "U+1818", "U+1819">>,
      <<"U+1946", "U+1947", "U+1948", "U+1949", "U+194A",
        "U+194B", "U+194C", "U+194D", "U+194E", "U+194F">>,
      <<"U+19D0", "U+19D1", "U+19D2", "U+19D3", "U+19D4",
        "U+19D5", "U+19D6", "U+19D7", "U+19D8", "U+19D9">>,
      <<"U+1A80", "U+1A81", "U+1A82", "U+1A83", "U+1A84",
        "U+1A85", "U+1A86", "U+1A87", "U+1A88", "U+1A89">>,
      <<"U+1A90", "U+1A91", "U+1A92", "U+1A93", "U+1A94",
        "U+1A95", "U+1A96", "U+1A97", "U+1A98", "U+1A99">>,
      <<"U+1B50", "U+1B51", "U+1B52", "U+1B53", "U+1B54",
        "U+1B55", "U+1B56", "U+1B57", "U+1B58", "U+1B59">>,
      <<"U+1BB0", "U+1BB1", "U+1BB2", "U+1BB3", "U+1BB4",
        "U+1BB5", "U+1BB6", "U+1BB7", "U+1BB8", "U+1BB9">>,
      <<"U+1C40", "U+1C41", "U+1C42", "U+1C43", "U+1C44",
        "U+1C45", "U+1C46", "U+1C47", "U+1C48", "U+1C49">>,
      <<"U+1C50", "U+1C51", "U+1C52", "U+1C53", "U+1C54",
        "U+1C55", "U+1C56", "U+1C57", "U+1C58", "U+1C59">>,
      <<"U+A620", "U+A621", "U+A622", "U+A623", "U+A624",
        "U+A625", "U+A626", "U+A627", "U+A628", "U+A629">>,
      <<"U+A8D0", "U+A8D1", "U+A8D2", "U+A8D3", "U+A8D4",
        "U+A8D5", "U+A8D6", "U+A8D7", "U+A8D8", "U+A8D9">>,
      <<"U+A900", "U+A901", "U+A902", "U+A903", "U+A904",
        "U+A905", "U+A906", "U+A907", "U+A908", "U+A909">>,
      <<"U+A9D0", "U+A9D1", "U+A9D2", "U+A9D3", "U+A9D4",
        "U+A9D5", "U+A9D6", "U+A9D7", "U+A9D8", "U+A9D9">>,
      <<"U+A9F0", "U+A9F1", "U+A9F2", "U+A9F3", "U+A9F4",
        "U+A9F5", "U+A9F6", "U+A9F7", "U+A9F8", "U+A9F9">>,
      <<"U+AA50", "U+AA51", "U+AA52", "U+AA53", "U+AA54",
        "U+AA55", "U+AA56", "U+AA57", "U+AA58", "U+AA59">>,
      <<"U+ABF0", "U+ABF1", "U+ABF2", "U+ABF3", "U+ABF4",
        "U+ABF5", "U+ABF6", "U+ABF7", "U+ABF8", "U+ABF9">>,
      <<"U+FF10", "U+FF11", "U+FF12", "U+FF13", "U+FF14",
        "U+FF15", "U+FF16", "U+FF17", "U+FF18", "U+FF19">>,
      <<"U+104A0", "U+104A1", "U+104A2", "U+104A3", "U+104A4",
        "U+104A5", "U+104A6", "U+104A7", "U+104A8", "U+104A9">>,
      <<"U+10D30", "U+10D31", "U+10D32", "U+10D33", "U+10D34",
        "U+10D35", "U+10D36", "U+10D37", "U+10D38", "U+10D39">>,
      <<"U+11066", "U+11067", "U+11068", "U+11069", "U+1106A",
        "U+1106B", "U+1106C", "U+1106D", "U+1106E", "U+1106F">>,
      <<"U+110F0", "U+110F1", "U+110F2", "U+110F3", "U+110F4",
        "U+110F5", "U+110F6", "U+110F7", "U+110F8", "U+110F9">>,
      <<"U+11136", "U+11137", "U+11138", "U+11139", "U+1113A",
        "U+1113B", "U+1113C", "U+1113D", "U+1113E", "U+1113F">>,
      <<"U+111D0", "U+111D1", "U+111D2", "U+111D3", "U+111D4",
        "U+111D5", "U+111D6", "U+111D7", "U+111D8", "U+111D9">>,
      <<"U+112F0", "U+112F1", "U+112F2", "U+112F3", "U+112F4",
        "U+112F5", "U+112F6", "U+112F7", "U+112F8", "U+112F9">>,
      <<"U+11450", "U+11451", "U+11452", "U+11453", "U+11454",
        "U+11455", "U+11456", "U+11457", "U+11458", "U+11459">>,
      <<"U+114D0", "U+114D1", "U+114D2", "U+114D3", "U+114D4",
        "U+114D5", "U+114D6", "U+114D7", "U+114D8", "U+114D9">>,
      <<"U+11650", "U+11651", "U+11652", "U+11653", "U+11654",
        "U+11655", "U+11656", "U+11657", "U+11658", "U+11659">>,
      <<"U+116C0", "U+116C1", "U+116C2", "U+116C3", "U+116C4",
        "U+116C5", "U+116C6", "U+116C7", "U+116C8", "U+116C9">>,
      <<"U+11730", "U+11731", "U+11732", "U+11733", "U+11734",
        "U+11735", "U+11736", "U+11737", "U+11738", "U+11739">>,
      <<"U+118E0", "U+118E1", "U+118E2", "U+118E3", "U+118E4",
        "U+118E5", "U+118E6", "U+118E7", "U+118E8", "U+118E9">>,
      <<"U+11950", "U+11951", "U+11952", "U+11953", "U+11954",
        "U+11955", "U+11956", "U+11957", "U+11958", "U+11959">>,
      <<"U+11C50", "U+11C51", "U+11C52", "U+11C53", "U+11C54",
        "U+11C55", "U+11C56", "U+11C57", "U+11C58", "U+11C59">>,
      <<"U+11D50", "U+11D51", "U+11D52", "U+11D53", "U+11D54",
        "U+11D55", "U+11D56", "U+11D57", "U+11D58", "U+11D59">>,
      <<"U+11DA0", "U+11DA1", "U+11DA2", "U+11DA3", "U+11DA4",
        "U+11DA5", "U+11DA6", "U+11DA7", "U+11DA8", "U+11DA9">>,
      <<"U+16A60", "U+16A61", "U+16A62", "U+16A63", "U+16A64",
        "U+16A65", "U+16A66", "U+16A67", "U+16A68", "U+16A69">>,
      <<"U+16AC0", "U+16AC1", "U+16AC2", "U+16AC3", "U+16AC4",
        "U+16AC5", "U+16AC6", "U+16AC7", "U+16AC8", "U+16AC9">>,
      <<"U+16B50", "U+16B51", "U+16B52", "U+16B53", "U+16B54",
        "U+16B55", "U+16B56", "U+16B57", "U+16B58", "U+16B59">>,
      <<"U+1D7CE", "U+1D7CF", "U+1D7D0", "U+1D7D1", "U+1D7D2",
        "U+1D7D3", "U+1D7D4", "U+1D7D5", "U+1D7D6", "U+1D7D7">>,
      <<"U+1D7D8", "U+1D7D9", "U+1D7DA", "U+1D7DB", "U+1D7DC",
        "U+1D7DD", "U+1D7DE", "U+1D7DF", "U+1D7E0", "U+1D7E1">>,
      <<"U+1D7E2", "U+1D7E3", "U+1D7E4", "U+1D7E5", "U+1D7E6",
        "U+1D7E7", "U+1D7E8", "U+1D7E9", "U+1D7EA", "U+1D7EB">>,
      <<"U+1D7EC", "U+1D7ED", "U+1D7EE", "U+1D7EF", "U+1D7F0",
        "U+1D7F1", "U+1D7F2", "U+1D7F3", "U+1D7F4", "U+1D7F5">>,
      <<"U+1D7F6", "U+1D7F7", "U+1D7F8", "U+1D7F9", "U+1D7FA",
        "U+1D7FB", "U+1D7FC", "U+1D7FD", "U+1D7FE", "U+1D7FF">>,
      <<"U+1E140", "U+1E141", "U+1E142", "U+1E143", "U+1E144",
        "U+1E145", "U+1E146", "U+1E147", "U+1E148", "U+1E149">>,
      <<"U+1E2F0", "U+1E2F1", "U+1E2F2", "U+1E2F3", "U+1E2F4",
        "U+1E2F5", "U+1E2F6", "U+1E2F7", "U+1E2F8", "U+1E2F9">>,
      <<"U+1E950", "U+1E951", "U+1E952", "U+1E953", "U+1E954",
        "U+1E955", "U+1E956", "U+1E957", "U+1E958", "U+1E959">>,
      <<"U+1FBF0", "U+1FBF1", "U+1FBF2", "U+1FBF3", "U+1FBF4",
        "U+1FBF5", "U+1FBF6", "U+1FBF7", "U+1FBF8", "U+1FBF9">>
    >>

\* the decimal value of each digit
DigitTable ==
    [c \in UNION {{DigitBlocks[b][d] : d \in 1..10} : b \in 1..Len(DigitBlocks)} |->
        CHOOSE v \in 0..9 : \E b \in 1..Len(DigitBlocks) : DigitBlocks[b][v + 1] = c]

\* the characters int() reads as digits
Digit == DOMAIN DigitTable

\* the decimal value of a digit
DigitVal(c) == DigitTable[c]

\* the characters int() strips from both ends; the separators U+001C to
\* U+001F are not among them
Whitespace ==
    {" ", "\t", "\n", "\r", "\f", "U+000B", "U+0085", "U+00A0", "U+1680",
     "U+2000", "U+2001", "U+2002", "U+2003", "U+2004", "U+2005", "U+2006",
     "U+2007", "U+2008", "U+2009", "U+200A", "U+2028", "U+2029", "U+202F",
     "U+205F", "U+3000"}

DigitChar(d) ==
    CASE d = 0 -> "0" [] d = 1 -> "1" [] d = 2 -> "2" [] d = 3 -> "3"
      [] d = 4 -> "4" [] d = 5 -> "5" [] d = 6 -> "6" [] d = 7 -> "7"
      [] d = 8 -> "8" [] d = 9 -> "9"

RECURSIVE Decimal(_)
\* the decimal numeral of a natural number, as written in an id literal
Decimal(n) ==
    IF n < 10 THEN <<DigitChar(n)>>
    ELSE Decimal(n \div 10) \o <<DigitChar(n % 10)>>

\* drop the leading whitespace
StripLeft(s) ==
    IF \A i \in 1..Len(s) : s[i] \in Whitespace THEN <<>>
    ELSE LET first == CHOOSE i \in 1..Len(s) :
                          s[i] \notin Whitespace
                            /\ \A j \in 1..(i - 1) : s[j] \in Whitespace
         IN  SubSeq(s, first, Len(s))

\* drop the trailing whitespace
StripRight(s) ==
    IF \A i \in 1..Len(s) : s[i] \in Whitespace THEN <<>>
    ELSE LET final == CHOOSE i \in 1..Len(s) :
                          s[i] \notin Whitespace
                            /\ \A j \in (i + 1)..Len(s) : s[j] \in Whitespace
         IN  SubSeq(s, 1, final)

Strip(s) == StripRight(StripLeft(s))

\* digits with single underscores between them: 1, 10, 1_0, 0_1
WellGrouped(s) ==
    /\ s # <<>>
    /\ \A i \in 1..Len(s) :
          \/ s[i] \in Digit
          \/ /\ s[i] = "_"
             /\ i > 1 /\ i < Len(s)
             /\ s[i - 1] \in Digit /\ s[i + 1] \in Digit

\* the digit values of a grouped numeral, underscores dropped
DigitsOf(s) ==
    LET d == SelectSeq(s, LAMBDA c : c # "_")
    IN  [i \in 1..Len(d) |-> DigitVal(d[i])]

\* Python int(s), base 10
PyInt(s) ==
    LET t == Strip(s)
        signed == t # <<>> /\ Head(t) \in {"+", "-"}
        body == IF signed THEN Tail(t) ELSE t
    IN  IF ~WellGrouped(body) THEN Fail("ValueError")
        ELSE IF Len(DigitsOf(body)) > MaxStrDigits THEN Fail("ValueError")
        ELSE Ok(PyLong(signed /\ Head(t) = "-", BigOfDigits(DigitsOf(body))))

\* Python s[1:]
Slice1(s) == IF s = <<>> THEN <<>> ELSE Tail(s)

(***************************************************************************)
(* ThoughtNode values.  Only the id and metadata['tags'] are read.         *)
(***************************************************************************)
\* metadata without a 'tags' key, and metadata {'tags': t}
NoTags == [has |-> FALSE, tags |-> <<>>]

WithTags(t) == [has |-> TRUE, tags |-> t]

ThoughtNode(id, metadata) == [id |-> id, metadata |-> metadata]

PathId(i) == <<"n">> \o Decimal(i)

\* n0 .. nMaxIdx
PathIds == {PathId(i) : i \in 0..MaxIdx}

\* n9007199254740993, a suffix of 2^53 + 1
WideId == <<"n", "9", "0", "0", "7", "1", "9", "9", "2", "5", "4", "7", "4",
            "0", "9", "9", "3">>

\* n999...9, a suffix too large for a float
HugeId == <<"n">> \o [i \in 1..HugeDigits |-> "9"]

\* ids that int() reads in its less common ways, or refuses:
\* n01, n-1, n+5, "n\t7 ", n1_0, n<U+0969> (a Devanagari 3), n, n<U+001C>7,
\* n1__0, setup
OddIds ==
    {<<"n", "0", "1">>, <<"n", "-", "1">>, <<"n", "+", "5">>,
     <<"n", "\t", "7", " ">>, <<"n", "1", "_", "0">>, <<"n", "U+0969">>,
     <<"n">>, <<"n", "U+001C", "7">>, <<"n", "1", "_", "_", "0">>,
     <<"s", "e", "t", "u", "p">>,
     WideId, HugeId}

\* the ids the odd ones are paired with
AnchorIds == {PathId(0), PathId(1)}

\* pairs of ids offered to the insight kernel
InsightIdPairs ==
    (PathIds \X PathIds) \cup (OddIds \X AnchorIds) \cup (AnchorIds \X OddIds)
      \cup {<<id, id>> : id \in OddIds}
      \cup {<<PathId(10), <<"n", "1", "_", "0">>>>}

InsightPairs ==
    {<<ThoughtNode(p[1], NoTags), ThoughtNode(p[2], NoTags)>> : p \in InsightIdPairs}

\* tags of the demonstration's nodes
TagName == <<"library", "books", "fear">>

Tag == {TagName[i] : i \in 1..Len(TagName)}

\* 'tags' lists of up to MaxTags entries, repeats included; the code reads a
\* list through set(), so one order of each is offered
TagLists ==
    UNION {{[i \in 1..k |-> TagName[f[i]]] :
              f \in {g \in [1..k -> 1..Len(TagName)] :
                        \A i \in 1..(k - 1) : g[i] <= g[i + 1]}} :
           k \in 0..MaxTags}

SetupId == <<"s", "e", "t", "u", "p">>

PunchlineId == <<"p", "u", "n", "c", "h", "l", "i", "n", "e">>

Metadata == {WithTags(t) : t \in TagLists} \cup {NoTags}

\* metadata whose 'tags' list names no tag twice
PlainMetadata ==
    {m \in Metadata : \A i, j \in 1..Len(m.tags) : m.tags[i] = m.tags[j] => i = j}

\* setups carry every list, punchlines the lists without repeats
SetupPool == {ThoughtNode(SetupId, m) : m \in Metadata}

PunchlinePool == {ThoughtNode(PunchlineId, m) : m \in PlainMetadata}

(***************************************************************************)
(* InsightAwareKernel                                                      *)
(***************************************************************************)
None == [kind |-> "None"]

Raise(e) == [kind |-> "Error", err |-> e]

InsightEvent(s, t, sd, td, r, m) ==
    [kind |-> "Event", source_id |-> s, target_id |-> t,
     surface_distance |-> sd, tunnel_distance |-> td,
     compression_ratio |-> r, magnitude |-> m]

GetGraphDistanceSigned(start, end) ==
    LET s == PyInt(Slice1(start))
        e == PyInt(Slice1(end))
    IN  IF ~s.ok THEN s
        ELSE IF ~e.ok THEN e
        ELSE Ok(IntSub(s.val, e.val))

GetGraphDistanceStrict(start, end) ==
    IF start \notin nodes \/ end \notin nodes THEN Fail("NodeNotFound")
    ELSE LET s == PyInt(Slice1(start))
             e == PyInt(Slice1(end))
         IN  IF ~s.ok THEN s
             ELSE IF ~e.ok THEN e
             ELSE Ok(Abs(IntSub(s.val, e.val)))

\* _get_graph_distance: abs(int(start[1:]) - int(end[1:]))
GetGraphDistance(start, end) ==
    LET s == PyInt(Slice1(start))
        e == PyInt(Slice1(end))
    IN  IF ~s.ok THEN s
        ELSE IF ~e.ok THEN e
        ELSE Ok(Abs(IntSub(s.val, e.val)))

\* _check_resonance as defined in InsightAwareKernel
CheckResonance(a, b) == TRUE

\* self._check_resonance(node_a, node_b): the method is looked up on the
\* instance, so a kernel whose oracle was replaced answers with its own
SelfCheckResonance(a, b) ==
    IF oracle = "default" THEN CheckResonance(a, b) ELSE FALSE

ClassifyInclusive(ratio) ==
    LET m0 == "Minor"
        m1 == IF RatLeq(Rat(2, 1), ratio) THEN "Major" ELSE m0
        m2 == IF RatLeq(Rat(5, 1), ratio) THEN "Epiphany" ELSE m1
        m3 == IF RatLeq(Rat(10, 1), ratio) THEN "Paradigm Shift" ELSE m2
    IN  m3

\* step 5: three 'if' statements, each overwriting magnitude
Classify(ratio) ==
    LET m0 == "Minor"
        m1 == IF RatGT(ratio, 2) THEN "Major" ELSE m0
        m2 == IF RatGT(ratio, 5) THEN "Epiphany" ELSE m1
        m3 == IF RatGT(ratio, 10) THEN "Paradigm Shift" ELSE m2
    IN  m3

EventFor(node_a, node_b, path_len) ==
    LET ratio == IntTrueDiv(path_len, 1)
    IN  IF ~ratio.ok THEN Raise(ratio.err)
        ELSE InsightEvent(node_a.id, node_b.id, path_len, 1, ratio.val,
                          Classify(ratio.val))

CapacityNeighborsOnly(node_a, node_b) ==
    LET current_path_len == GetGraphDistance(node_a.id, node_b.id)
    IN  IF ~current_path_len.ok THEN Raise(current_path_len.err)
        ELSE IF ~IntLeq(IntOf(1), current_path_len.val) THEN None
        ELSE IF ~SelfCheckResonance(node_a, node_b) THEN None
        ELSE EventFor(node_a, node_b, current_path_len.val)

CapacityUnchecked(node_a, node_b) ==
    LET current_path_len == GetGraphDistance(node_a.id, node_b.id)
    IN  IF ~current_path_len.ok THEN Raise(current_path_len.err)
        ELSE IF IntLeq(current_path_len.val, IntOf(1)) THEN None
        ELSE EventFor(node_a, node_b, current_path_len.val)

CapacityRejectSame(node_a, node_b) ==
    LET current_path_len == GetGraphDistance(node_a.id, node_b.id)
    IN  IF node_a.id = node_b.id THEN Raise("InvalidInput")
        ELSE IF ~current_path_len.ok THEN Raise(current_path_len.err)
        ELSE IF IntLeq(current_path_len.val, IntOf(1)) THEN None
        ELSE IF ~SelfCheckResonance(node_a, node_b) THEN None
        ELSE EventFor(node_a, node_b, current_path_len.val)

\* calculate_connection_capacity
CalculateConnectionCapacity(node_a, node_b) ==
    LET current_path_len == GetGraphDistance(node_a.id, node_b.id)
    IN  IF ~current_path_len.ok THEN Raise(current_path_len.err)
        ELSE IF IntLeq(current_path_len.val, IntOf(1)) THEN None
        ELSE LET tunnel_len == 1
                 resonance == SelfCheckResonance(node_a, node_b)
             IN  IF ~resonance THEN None
                 ELSE LET ratio == IntTrueDiv(current_path_len.val, tunnel_len)
                      IN  IF ~ratio.ok THEN Raise(ratio.err)
                          ELSE InsightEvent(node_a.id, node_b.id,
                                            current_path_len.val, tunnel_len,
                                            ratio.val, Classify(ratio.val))

(***************************************************************************)
(* HumorAwareKernel                                                        *)
(***************************************************************************)
HumorMetric(sd, td, r) ==
    [kind |-> "Metric", surface_distance |-> sd, tunnel_distance |-> td,
     compression_ratio |-> r]

\* set(node.metadata.get('tags', []))
TagSet(node) ==
    LET tags == IF node.metadata.has THEN node.metadata.tags ELSE <<>>
    IN  {tags[i] : i \in 1..Len(tags)}

SemanticDistanceInverted(node_a, node_b) ==
    LET intersection == Cardinality(TagSet(node_a) \cap TagSet(node_b))
    IN  IF intersection > 0 THEN Rat(intersection, 1) ELSE Rat(10, 1)

\* the 'tags' list as stored, [] when the key is missing
TagList(node) == IF node.metadata.has THEN node.metadata.tags ELSE <<>>

SemanticDistanceNoDedup(node_a, node_b) ==
    LET tags_b == TagSet(node_b)
        intersection ==
            Cardinality({i \in 1..Len(TagList(node_a)) : TagList(node_a)[i] \in tags_b})
    IN  IF intersection > 0 THEN FloatRecip(intersection) ELSE Rat(10, 1)

\* _simulate_semantic_distance
SimulateSemanticDistance(node_a, node_b) ==
    LET tags_a == TagSet(node_a)
        tags_b == TagSet(node_b)
        intersection == Cardinality(tags_a \cap tags_b)
    IN  IF intersection > 0 THEN FloatRecip(intersection) ELSE Rat(10, 1)

\* measure_humor_potential
MeasureHumorPotential(setup, punchline) ==
    LET surface_dist == SimulateSemanticDistance(setup, punchline)
        tunnel_dist == Rat(1, 1)
        ratio == IF RatGT(tunnel_dist, 0) THEN RatDiv(surface_dist, tunnel_dist)
                 ELSE Rat(0, 1)
    IN  HumorMetric(surface_dist, tunnel_dist, ratio)

(***************************************************************************)
(* State machine.                                                          *)
(*   nodes  : ids registered in the kernel's graph                         *)
(*   oracle : which _check_resonance the kernel instance answers with      *)
(*   last   : the most recent call made against the present graph and      *)
(*            oracle: its arguments and what it returned                   *)
(***************************************************************************)
NoCall == [op |-> "none"]

Init ==
    /\ nodes = {}
    /\ oracle = "default"
    /\ last = NoCall

\* the graph kernel takes the next node of the path n1 -> n2 -> ...
AddNode ==
    /\ Cardinality(nodes) < MaxGraph
    /\ nodes' = nodes \cup {PathId(Cardinality(nodes) + 1)}
    /\ last' = NoCall
    /\ UNCHANGED oracle

\* the kernel's resonance check is replaced by one that rejects every pair,
\* or the shipped one is restored
SetOracle ==
    /\ oracle' = IF oracle = "default" THEN "reject" ELSE "default"
    /\ last' = NoCall
    /\ UNCHANGED nodes

CallInsight ==
    \E p \in InsightPairs :
        /\ last' = [op |-> "insight", a |-> p[1], b |-> p[2],
                    out |-> CalculateConnectionCapacity(p[1], p[2])]
        /\ UNCHANGED <<nodes, oracle>>

CallHumor ==
    \E a \in SetupPool, b \in PunchlinePool :
        /\ last' = [op |-> "humor", a |-> a, b |-> b,
                    out |-> MeasureHumorPotential(a, b)]
        /\ UNCHANGED <<nodes, oracle>>

Next == AddNode \/ SetOracle \/ CallInsight \/ CallHumor

Spec == Init /\ [][Next]_vars

(***************************************************************************)
(* Vocabulary of the properties.                                           *)
(***************************************************************************)
IsInsight == last.op = "insight"

IsHumor == last.op = "humor"

\* what the distance provider reports for the pair of the last call
Dist == GetGraphDistance(last.a.id, last.b.id)

\* what the resonance oracle answers for the pair of the last call
Resonant == SelfCheckResonance(last.a, last.b)

\* the distance provider answered with a number
Measured == IsInsight /\ Dist.ok

\* that number is greater than 1
FarApart == ~IntLeq(Dist.val, IntOf(1))

\* a float has exactly the value of an integer
Exactly(x, n) == FloatIsExact(n.mag) /\ RatEq(x, NearestFloat(n.mag))

\* a float is the one nearest to 1/k: equal to it, or a 53 bit numerator
\* within half a unit in the last place of it
NearestToRecip(x, k) ==
    IF x.exp = 0 THEN BigTimes(x.num, k) = BigOf(x.den)
    ELSE LET a == BigTimes(x.num, k)
             b == BigShl(<<1>>, 0 - x.exp)
             diff == IF BigCmp(a, b) >= 0 THEN BigSub(a, b) ELSE BigSub(b, a)
         IN  /\ x.exp < 0 /\ x.den = 1
             /\ BigCmp(x.num, Two52) >= 0 /\ BigCmp(x.num, Two53) < 0
             /\ BigCmp(BigTimes(diff, 2), BigOf(k)) <= 0

N1 == <<"n", "1">>

N10 == <<"n", "1", "0">>

\* the ladder read from the top down, first match wins
Ladder(ratio) ==
    IF RatGT(ratio, 10) THEN "Paradigm Shift"
    ELSE IF RatGT(ratio, 5) THEN "Epiphany"
    ELSE IF RatGT(ratio, 2) THEN "Major"
    ELSE "Minor"

Rank(m) ==
    CASE m = "Minor" -> 0 [] m = "Major" -> 1 [] m = "Epiphany" -> 2
      [] m = "Paradigm Shift" -> 3

\* number of distinct tags two nodes have in common
Shared(a, b) ==
    LET ta == IF a.metadata.has THEN a.metadata.tags ELSE <<>>
        tb == IF b.metadata.has THEN b.metadata.tags ELSE <<>>
    IN  Cardinality({t \in Tag : /\ \E i \in 1..Len(ta) : ta[i] = t
                                 /\ \E j \in 1..Len(tb) : tb[j] = t})

\* hop count on the path n1 - n2 - ... - nPathLen by breadth-first search
PathNeighbors(i) == {j \in 1..PathLen : j = i + 1 \/ j = i - 1}

RECURSIVE Bfs(_, _, _, _)
Bfs(frontier, seen, target, depth) ==
    IF target \in frontier THEN depth
    ELSE LET next == (UNION {PathNeighbors(i) : i \in frontier}) \ seen
         IN  Bfs(next, seen \cup next, target, depth + 1)

PathHops(i, j) == Bfs({i}, {i}, j, 0)

(***************************************************************************)
(* C1: a pair whose measured surface distance is 0 or 1 yields None,       *)
(* whatever the resonance oracle answers for the pair.                     *)
(***************************************************************************)
C1_AdjacentYieldsNone ==
    (Measured /\ IntLeq(Dist.val, IntOf(1))) => last.out = None

C1_Witness ==
    /\ Measured
    /\ Dist.val = IntOf(1)
    /\ Resonant
    /\ last.out = None

(***************************************************************************)
(* C2: a pair at distance greater than 1 that the oracle rejects yields    *)
(* None, not a record.                                                     *)
(***************************************************************************)
C2_NonResonantYieldsNone ==
    (Measured /\ FarApart /\ ~Resonant) => last.out = None

C2_Witness ==
    /\ Measured
    /\ ~IntLeq(Dist.val, IntOf(10))
    /\ ~Resonant
    /\ last.out = None

(***************************************************************************)
(* C3: a pair at distance greater than 1 that the oracle accepts yields a  *)
(* record with tunnel distance 1, the measured surface distance, a ratio   *)
(* equal to that distance, and the ids of the first and second argument.   *)
(***************************************************************************)
C3_ResonantYieldsEvent ==
    (Measured /\ FarApart /\ Resonant) =>
        /\ last.out.kind = "Event"
        /\ last.out.tunnel_distance = 1
        /\ last.out.surface_distance = Dist.val
        /\ Exactly(last.out.compression_ratio, last.out.surface_distance)
        /\ last.out.source_id = last.a.id
        /\ last.out.target_id = last.b.id

(***************************************************************************)
(* C4: the magnitude of a record is the top-down ladder of its ratio with  *)
(* strict thresholds 10, 5, 2 (so 2 is Minor, 5 Major, 10 Epiphany), and   *)
(* a later record with a ratio at least as large never has a lower         *)
(* magnitude.                                                              *)
(***************************************************************************)
C4_MagnitudeIsLadder ==
    (IsInsight /\ last.out.kind = "Event") =>
        /\ last.out.magnitude = Ladder(last.out.compression_ratio)
        /\ RatEq(last.out.compression_ratio, Rat(2, 1)) => last.out.magnitude = "Minor"
        /\ RatEq(last.out.compression_ratio, Rat(5, 1)) => last.out.magnitude = "Major"
        /\ RatEq(last.out.compression_ratio, Rat(10, 1)) => last.out.magnitude = "Epiphany"

C4_MonotoneStep ==
    (/\ IsInsight /\ last.out.kind = "Event"
     /\ last'.op = "insight" /\ last'.out.kind = "Event"
     /\ RatLeq(last.out.compression_ratio, last'.out.compression_ratio))
        => Rank(last.out.magnitude) <= Rank(last'.out.magnitude)

C4_Magnitude == []C4_MagnitudeIsLadder /\ [][C4_MonotoneStep]_vars

C4_Witness ==
    /\ IsInsight
    /\ last.out.kind = "Event"
    /\ RatEq(last.out.compression_ratio, Rat(10, 1))
    /\ last.out.magnitude = "Epiphany"

Absent == IsInsight /\ (last.a.id \notin nodes \/ last.b.id \notin nodes)

C6_AbsentNodeNotFound == Absent => last.out = Raise("NodeNotFound")

(***************************************************************************)
(* C6 amended: the distance computation never consults the graph's node    *)
(* set.  With an absent id it still measures the difference of the id      *)
(* suffixes (or fails with the ValueError of int()), and the call returns  *)
(* None or a record by the same rules as for registered nodes (or fails    *)
(* with OverflowError when the distance is too large for a float);         *)
(* nothing fails with NodeNotFound.                                        *)
(***************************************************************************)
C6_AbsentStillMeasured ==
    Absent =>
        /\ Dist # Fail("NodeNotFound")
        /\ last.out # Raise("NodeNotFound")
        /\ ~Dist.ok => last.out = Raise("ValueError")
        /\ (Dist.ok /\ ~FarApart) => last.out = None
        /\ (Dist.ok /\ FarApart /\ ~Resonant) => last.out = None
        /\ (Dist.ok /\ FarApart /\ Resonant) =>
              \/ /\ last.out.kind = "Event"
                 /\ last.out.surface_distance = Dist.val
              \/ /\ last.out = Raise("OverflowError")
                 /\ BigDigits(Dist.val.mag) >= MaxFloatDigits

C6_Witness ==
    /\ Absent
    /\ nodes # {}
    /\ last.a.id \in nodes
    /\ last.out.kind = "Event"

(***************************************************************************)
(* C7 as stated: every record, InsightEvent or HumorMetric, has a          *)
(* compression ratio of at least 1.                                        *)
(***************************************************************************)
HasRecord == last.op # "none" /\ last.out.kind \in {"Event", "Metric"}

C7_RatioAtLeastOne ==
    HasRecord => RatLeq(Rat(1, 1), last.out.compression_ratio)

(***************************************************************************)
(* C7 amended: every InsightEvent has a compression ratio of at least 1;   *)
(* a HumorMetric has a ratio of at least 1 exactly when the two nodes      *)
(* share at most one tag, and for k >= 2 shared tags its ratio is the      *)
(* float nearest to 1/k.                                                   *)
(***************************************************************************)
C7_RatioByKind ==
    /\ (IsInsight /\ last.out.kind = "Event") =>
          RatLeq(Rat(1, 1), last.out.compression_ratio)
    /\ IsHumor =>
          /\ RatLeq(Rat(1, 1), last.out.compression_ratio)
                <=> Shared(last.a, last.b) <= 1
          /\ Shared(last.a, last.b) >= 2 =>
                NearestToRecip(last.out.compression_ratio, Shared(last.a, last.b))

C7_Witness ==
    /\ IsHumor
    /\ Shared(last.a, last.b) = 3
    /\ ~RatLeq(Rat(1, 1), last.out.compression_ratio)

(***************************************************************************)
(* C9: on the path n1 .. n10 the measured distance between ni and nj is    *)
(* the hop count between them, in either argument order, and with a        *)
(* resonant oracle the call on (n1, n10) returns surface distance 9,       *)
(* tunnel distance 1, ratio 9 and magnitude Epiphany.                      *)
(***************************************************************************)
C9_PathScenario ==
    IsInsight =>
        /\ \A i, j \in 1..PathLen :
              (last.a.id = PathId(i) /\ last.b.id = PathId(j)) =>
                  Dist = Ok(IntOf(PathHops(i, j)))
        /\ (last.a.id = N1 /\ last.b.id = N10 /\ Resonant) =>
              /\ last.out.kind = "Event"
              /\ last.out.surface_distance = IntOf(9)
              /\ last.out.tunnel_distance = 1
              /\ RatEq(last.out.compression_ratio, Rat(9, 1))
              /\ last.out.magnitude = "Epiphany"

C9_Witness ==
    /\ IsInsight
    /\ last.a.id = N1
    /\ last.b.id = N10
    /\ last.out.kind = "Event"
    /\ last.out.surface_distance = IntOf(9)

(***************************************************************************)
(* C10: nodes with no tag in common (a node without 'tags' included) get   *)
(* surface distance 10, tunnel distance 1 and ratio 10, which the          *)
(* magnitude ladder classifies as Epiphany; nodes sharing k > 0 tags get   *)
(* surface distance and ratio 1/k, as the nearest float.                   *)
(***************************************************************************)
C10_HumorDistances ==
    IsHumor =>
        /\ RatEq(last.out.tunnel_distance, Rat(1, 1))
        /\ Shared(last.a, last.b) = 0 =>
              /\ RatEq(last.out.surface_distance, Rat(10, 1))
              /\ RatEq(last.out.compression_ratio, Rat(10, 1))
              /\ Classify(last.out.compression_ratio) = "Epiphany"
        /\ Shared(last.a, last.b) > 0 =>
              /\ NearestToRecip(last.out.surface_distance, Shared(last.a, last.b))
              /\ NearestToRecip(last.out.compression_ratio, Shared(last.a, last.b))

C10_Witness ==
    /\ IsHumor
    /\ ~last.a.metadata.has
    /\ last.b.metadata.has
    /\ Len(last.b.metadata.tags) = 2
    /\ RatEq(last.out.compression_ratio, Rat(10, 1))

====
